---- MODULE Spec2Model ----
(***************************************************************************)
(* Coin ledger of the Robo Coin API (src/server.py, src/models.py).        *)
(*                                                                         *)
(* The database collections are the state.  Every request handler is a     *)
(* sequence of database operations; each operation (each awaited call) is  *)
(* one atomic step, and steps of different requests interleave.  With      *)
(* serial = TRUE a request starts only when no other one is in flight.     *)
(*                                                                         *)
(* Money is fixed point: stored amounts and balances are hundredths of a   *)
(* coin, request inputs of give_coins are thousandths (so that the         *)
(* rounding to two decimals in CoinTransaction.validate_amount acts).      *)
(***************************************************************************)
EXTENDS Integers, Sequences, FiniteSets, TLC

\* ------------------------------------------------------------------ bounds
MaxReq == 2          \* request slots: requests that can be in flight at once
MaxStudents == 1     \* students create_student may create in one behaviour
MaxLedger == 3       \* ledger entries ever inserted in one behaviour
MaxRoster == 2       \* entries of an attendance roster
MaxNewGroups == 2    \* groups create_group may create in one behaviour
MaxMessages == 2     \* messages sent in one behaviour

\* ------------------------------------------------------- program constants
AmountLimit == 1000  \* CoinTransaction.amount: Field(ge=-1000, le=1000)
GroupCap == 12       \* create_student: student_count >= 12
ToListLimit == 100   \* save_attendance: find(...).to_list(100)
AttendanceCoin == 100 \* save_attendance: "amount": 1.0, in hundredths
KonfetPrice == 5     \* seed_data: reward "Konfet", price 5
SeniorCoins == 71    \* calculate_level: coins >= 71 is "Senior Robotsoz"
MiddleCoins == 31    \* calculate_level: coins >= 31 is "Middle Robotsoz"
RankLimit == 500     \* global_rankings: to_list(500)
GroupRankLimit == 100  \* group_rankings: to_list(100)
GroupLimit == 6      \* create_group: group_count >= 6; seed_data: range(1, 7)

\* --------------------------------------------------------------------- ids
\* ObjectIds are integers here.  The driver makes a fresh id for every insert,
\* so an id is never used twice, and none of a client's made-up ids is ever
\* allocated.
Teachers == {1, 2}                      \* seed_data: "lord", "saatbaeva"
StudentIds == 11 .. (10 + MaxStudents)  \* ids create_student hands out, in order
GhostId == 99                           \* a well-formed ObjectId of no document
Groups == {1, 2}                        \* two of the six seeded groups
SeededGroups == 1 .. GroupLimit         \* seed_data: "Guruh 1" .. "Guruh 6"
Dates == {1}                            \* a day (dates truncated to midnight)
Konfet == 1                             \* the seeded reward "Konfet"
NoReward == 9                           \* a well-formed ObjectId of no reward
GhostGroup == 98                        \* a well-formed ObjectId of no group
Assignment == 1                         \* an assignment id
Statuses == {"present", "absent", "late"}  \* AttendanceEntry.validate_status

Slots == 1 .. MaxReq

VARIABLES
    users,        \* db.users: id -> [role, groupId, totalCoins, isActive]
    ledger,       \* db.coinTransactions, in insertion order
    attendance,   \* db.attendance, in insertion order
    submissions,  \* db.submissions, in insertion order
    shop,         \* db.shopSettings: <<>> or <<[isOpen]>>
    nextUser,     \* number of users inserted by create_student so far
    nextTx,       \* number of ledger entries inserted so far
    nextSub,      \* number of submissions inserted so far
    req,          \* slot -> the request in flight there (its locals and position)
    clock,        \* history: number of writes of a totalCoins field so far
    serial,       \* TRUE: requests run one at a time
    bulk,         \* TRUE: a scenario at the program's limits (a roster longer
                  \* than ToListLimit, a group one short of GroupCap)
    groups,       \* db.groups: the ids of the group documents
    nextGroup,    \* number of groups inserted by create_group so far
    messages      \* db.messages, in insertion order: [fromUserId, toUserId]

vars == <<users, ledger, attendance, submissions, shop, nextUser, nextTx,
          nextSub, req, clock, serial, bulk, groups, nextGroup, messages>>

\* ----------------------------------------------------------------- helpers
Idle == [op |-> "idle"]

AllIdle == \A p \in Slots : req[p].op = "idle"

Range(s) == {s[i] : i \in 1 .. Len(s)}

RECURSIVE SumAmounts(_)
SumAmounts(s) == IF s = <<>> THEN 0 ELSE Head(s).amount + SumAmounts(Tail(s))

\* the ledger entries of one student, and their sum
EntriesOf(s) == SelectSeq(ledger, LAMBDA e : e.studentId = s)
LedgerSum(s) == SumAmounts(EntriesOf(s))

\* student.get("totalCoins", 0): the seeded teachers have no totalCoins field
GetCoins(u) == IF "totalCoins" \in DOMAIN u THEN u.totalCoins ELSE 0

\* the document u with its totalCoins field set to v
WithCoins(u, v) ==
    [f \in DOMAIN u \cup {"totalCoins"} |-> IF f = "totalCoins" THEN v ELSE u[f]]

\* update_one({"_id": id}, {"$set": {"totalCoins": v}}): no document, no effect
SetCoins(id, v) ==
    IF id \in DOMAIN users
    THEN [users EXCEPT ![id] = WithCoins(@, v)]
    ELSE users

\* a $inc that is lost
IncCoinsLost(id, d) == users

\* update_one({"_id": id}, {"$inc": {"totalCoins": d}}): atomic in the store
IncCoins(id, d) ==
    IF id \in DOMAIN users
    THEN [users EXCEPT ![id] = WithCoins(@, GetCoins(@) + d)]
    ELSE users

\* coinTransactions.insert_one: the entry gets a fresh _id.  forDate is not a
\* stored field: it records the attendance day an auto-award was made for.
Entry(s, t, amt, reason, d) ==
    [id |-> nextTx + 1, studentId |-> s, teacherId |-> t, amount |-> amt,
     reason |-> reason, forDate |-> d]

\* the model stops inserting students at its bound
StudentRoom == nextUser < (IF bulk THEN GroupCap + 1 ELSE MaxStudents)

\* the model stops inserting ledger entries at its bound
LedgerRoom == nextTx < (IF bulk THEN 2 * (ToListLimit + 1) ELSE MaxLedger)

\* round(v, 2) of a value given in thousandths, result in hundredths
Round2(m) ==
    LET q == m \div 10
        r == m % 10
    IN  IF r < 5 THEN q
        ELSE IF r > 5 THEN q + 1
        ELSE IF q % 2 = 0 THEN q ELSE q + 1

\* validate_amount without its test for 0
ValidateAmountNoZeroTest(raw) ==
    IF raw < -(AmountLimit * 1000) \/ raw > AmountLimit * 1000
    THEN [ok |-> FALSE, amount |-> 0]
    ELSE [ok |-> TRUE, amount |-> Round2(raw)]

\* CoinTransaction: Field(ge=-1000, le=1000), then validate_amount
ValidateAmount(raw) ==
    IF raw < -(AmountLimit * 1000) \/ raw > AmountLimit * 1000
    THEN [ok |-> FALSE, amount |-> 0]
    ELSE IF raw = 0 THEN [ok |-> FALSE, amount |-> 0]
    ELSE [ok |-> TRUE, amount |-> Round2(raw)]

\* ------------------------------------------------------------------ inputs
RawAmounts == {0, 4, 5000, -2000, 1000001}   \* thousandths of a coin
\* balances around the two thresholds of calculate_level, and below zero
LevelCoins ==
    {-200, -1, 0, 1}
        \cup ((100 * MiddleCoins - 110) .. (100 * MiddleCoins + 10))
        \cup ((100 * SeniorCoins - 110) .. (100 * SeniorCoins + 10))
KnownIds == {s \in StudentIds : s <= 10 + nextUser}  \* ids handed out so far
TargetIds == KnownIds \cup {GhostId}

\* a request may start in slot p: the lowest free slot (slots are
\* interchangeable), and when requests run one at a time, no other is in flight
CanStart(p) ==
    /\ req[p].op = "idle"
    /\ \A q \in Slots : q < p => req[q].op # "idle"
    /\ serial => AllIdle

\* the caller is authenticated as an active student (get_current_user,
\* require_student)
IsStudent(s) ==
    s \in DOMAIN users /\ users[s].role = "student" /\ users[s].isActive

\* ---------------------------------------------------------------- Init
Init0 ==
    /\ users = [t \in Teachers |->
                  [role |-> "teacher", isActive |-> TRUE]]
    /\ ledger = <<>>
    /\ attendance = <<>>
    /\ submissions = <<>>
    /\ nextUser = 0
    /\ nextTx = 0
    /\ nextSub = 0
    /\ clock = 0
    /\ req = [p \in Slots |-> Idle]
    /\ groups = SeededGroups
    /\ nextGroup = 0
    /\ messages = <<>>

\* the seeded state
InitSeed ==
    /\ Init0
    /\ shop = <<[isOpen |-> FALSE]>>
    /\ serial = TRUE
    /\ bulk = FALSE

\* a class at work: create_student has made student 11 in group 1, the shop
\* was opened by update_shop_settings, and student 11 has handed in the
\* assignment (complete_assignment)
InitClass ==
    /\ users = [u \in Teachers \cup {11} |->
                  IF u \in Teachers
                  THEN [role |-> "teacher", isActive |-> TRUE]
                  ELSE [role |-> "student", groupId |-> 1, totalCoins |-> 0,
                        isActive |-> TRUE]]
    /\ ledger = <<>>
    /\ attendance = <<>>
    /\ submissions = <<[id |-> 1, assignmentId |-> Assignment, studentId |-> 11,
                        status |-> "submitted", coinsGiven |-> 0]>>
    /\ shop = <<[isOpen |-> TRUE]>>
    /\ nextUser = 1
    /\ nextTx = 0
    /\ nextSub = 1
    /\ clock = 0
    /\ req = [p \in Slots |-> Idle]
    /\ groups = SeededGroups
    /\ nextGroup = 0
    /\ messages = <<>>

Init == InitClass /\ serial = FALSE /\ bulk = FALSE

InitAttendance == InitClass /\ serial = TRUE /\ bulk = FALSE

InitBulk == InitClass /\ serial = TRUE /\ bulk = TRUE

\* the class before any assignment was started: create_student has made
\* student 11, and there is no submission
InitWorkflow ==
    /\ users = [u \in Teachers \cup {11} |->
                  IF u \in Teachers
                  THEN [role |-> "teacher", isActive |-> TRUE]
                  ELSE [role |-> "student", groupId |-> 1, totalCoins |-> 0,
                        isActive |-> TRUE]]
    /\ ledger = <<>>
    /\ attendance = <<>>
    /\ submissions = <<>>
    /\ shop = <<[isOpen |-> FALSE]>>
    /\ nextUser = 1
    /\ nextTx = 0
    /\ nextSub = 0
    /\ clock = 0
    /\ req = [p \in Slots |-> Idle]
    /\ groups = SeededGroups
    /\ nextGroup = 0
    /\ messages = <<>>
    /\ serial = FALSE
    /\ bulk = FALSE

\* two students of group 1 with their records: create_student has made 11 and
\* 12, give_coins gave each 5 coins, save_attendance marked both absent, and
\* both started the assignment
InitCascade ==
    /\ users = [u \in Teachers \cup {11, 12} |->
                  IF u \in Teachers
                  THEN [role |-> "teacher", isActive |-> TRUE]
                  ELSE [role |-> "student", groupId |-> 1, totalCoins |-> 500,
                        isActive |-> TRUE]]
    /\ ledger = [i \in 1 .. 2 |->
                   [id |-> i, studentId |-> 10 + i, teacherId |-> 1,
                    amount |-> 500, reason |-> "manual", forDate |-> 0]]
    /\ attendance = [i \in 1 .. 2 |->
                       [studentId |-> 10 + i, groupId |-> 1, date |-> 1,
                        status |-> "absent"]]
    /\ submissions = [i \in 1 .. 2 |->
                        [id |-> i, assignmentId |-> Assignment,
                         studentId |-> 10 + i, status |-> "in_progress",
                         coinsGiven |-> 0]]
    /\ shop = <<[isOpen |-> FALSE]>>
    /\ nextUser = 2
    /\ nextTx = 2
    /\ nextSub = 2
    /\ clock = 0
    /\ req = [p \in Slots |-> Idle]
    /\ groups = SeededGroups
    /\ nextGroup = 0
    /\ messages = <<>>
    /\ serial = TRUE
    /\ bulk = FALSE

\* students 11 and 12 of group 1 after one give_coins each: 11 has any of the
\* balances LevelCoins, 12 has 31 coins
InitLevel ==
    \E c \in LevelCoins :
        /\ users = [u \in Teachers \cup {11, 12} |->
                      IF u \in Teachers
                      THEN [role |-> "teacher", isActive |-> TRUE]
                      ELSE [role |-> "student", groupId |-> 1,
                            totalCoins |-> IF u = 11 THEN c ELSE 100 * MiddleCoins,
                            isActive |-> TRUE]]
        /\ ledger = SelectSeq(
                      <<[id |-> 1, studentId |-> 12, teacherId |-> 1,
                         amount |-> 100 * MiddleCoins, reason |-> "manual",
                         forDate |-> 0],
                        [id |-> 2, studentId |-> 11, teacherId |-> 1,
                         amount |-> c, reason |-> "manual", forDate |-> 0]>>,
                      LAMBDA x : x.amount # 0)
        /\ attendance = <<>>
        /\ submissions = <<>>
        /\ shop = <<[isOpen |-> FALSE]>>
        /\ nextUser = 2
        /\ nextTx = 2
        /\ nextSub = 0
        /\ clock = 0
        /\ req = [p \in Slots |-> Idle]
        /\ groups = SeededGroups
        /\ nextGroup = 0
        /\ messages = <<>>
        /\ serial = TRUE
        /\ bulk = FALSE

\* one student more than a ranking lists: create_student has made students
\* 11 .. 511, twelve for each groupId it was given (create_student takes any
\* well-formed groupId)
InitRanking ==
    /\ users = [u \in Teachers \cup (11 .. (11 + RankLimit)) |->
                  IF u \in Teachers
                  THEN [role |-> "teacher", isActive |-> TRUE]
                  ELSE [role |-> "student",
                        groupId |-> 1 + ((u - 11) \div GroupCap),
                        totalCoins |-> 0, isActive |-> TRUE]]
    /\ ledger = <<>>
    /\ attendance = <<>>
    /\ submissions = <<>>
    /\ shop = <<[isOpen |-> FALSE]>>
    /\ nextUser = RankLimit + 1
    /\ nextTx = 0
    /\ nextSub = 0
    /\ clock = 0
    /\ req = [p \in Slots |-> Idle]
    /\ groups = SeededGroups
    /\ nextGroup = 0
    /\ messages = <<>>
    /\ serial = TRUE
    /\ bulk = FALSE

\* group 1 one student short of its capacity: create_student has made
\* students 11 .. 21 in it
InitGroups ==
    /\ users = [u \in Teachers \cup (11 .. (9 + GroupCap)) |->
                  IF u \in Teachers
                  THEN [role |-> "teacher", isActive |-> TRUE]
                  ELSE [role |-> "student", groupId |-> 1, totalCoins |-> 0,
                        isActive |-> TRUE]]
    /\ ledger = <<>>
    /\ attendance = <<>>
    /\ submissions = <<>>
    /\ shop = <<[isOpen |-> FALSE]>>
    /\ nextUser = GroupCap - 1
    /\ nextTx = 0
    /\ nextSub = 0
    /\ clock = 0
    /\ req = [p \in Slots |-> Idle]
    /\ groups = SeededGroups
    /\ nextGroup = 0
    /\ messages = <<>>
    /\ serial = FALSE
    /\ bulk = TRUE

\* the class at the shop: give_coins has awarded student 11 the price of one
\* "Konfet".  The settings document is open, closed, or missing (seed_data
\* inserts it after the teachers and the groups, and gives up on any error).
InitShop ==
    /\ users = [u \in Teachers \cup {11} |->
                  IF u \in Teachers
                  THEN [role |-> "teacher", isActive |-> TRUE]
                  ELSE [role |-> "student", groupId |-> 1,
                        totalCoins |-> 100 * KonfetPrice, isActive |-> TRUE]]
    /\ ledger = <<[id |-> 1, studentId |-> 11, teacherId |-> 1,
                   amount |-> 100 * KonfetPrice, reason |-> "manual",
                   forDate |-> 0]>>
    /\ attendance = <<>>
    /\ submissions = <<>>
    /\ shop \in {<<>>, <<[isOpen |-> FALSE]>>, <<[isOpen |-> TRUE]>>}
    /\ nextUser = 1
    /\ nextTx = 1
    /\ nextSub = 0
    /\ clock = 1
    /\ req = [p \in Slots |-> Idle]
    /\ groups = SeededGroups
    /\ nextGroup = 0
    /\ messages = <<>>
    /\ serial = FALSE
    /\ bulk = FALSE

\* ------------------------------------------------------------ responses
Done(p, code) == [req EXCEPT ![p] = [@ EXCEPT !.pc = "done", !.status = code]]

\* the response has been sent: the slot is free again
Finish(p) ==
    /\ req[p].op # "idle"
    /\ req[p].pc = "done"
    /\ req' = [req EXCEPT ![p] = Idle]
    /\ UNCHANGED <<users, ledger, attendance, submissions, shop, nextUser,
                   nextTx, nextSub, clock, serial, bulk, groups, nextGroup,
                   messages>>

\* ------------------------------------------------------- create_student
\* count_documents, then insert_one; the login lookup between them reads
\* nothing of this state
CreateStudentStart(p, g) ==
    /\ CanStart(p)
    /\ StudentRoom
    /\ LET n == Cardinality({u \in DOMAIN users :
                   /\ users[u].role = "student"
                   /\ users[u].isActive
                   /\ users[u].groupId = g})
       IN  req' = [req EXCEPT ![p] =
                     IF n >= GroupCap
                     THEN [op |-> "create_student", pc |-> "done", status |-> 400,
                           group |-> g]
                     ELSE [op |-> "create_student", pc |-> "insert", status |-> 0,
                           group |-> g]]
    /\ UNCHANGED <<users, ledger, attendance, submissions, shop, nextUser,
                   nextTx, nextSub, clock, serial, bulk, groups, nextGroup,
                   messages>>

CreateStudentInsert(p) ==
    /\ req[p].op = "create_student"
    /\ req[p].pc = "insert"
    /\ StudentRoom
    /\ LET id == 10 + nextUser + 1
       IN  users' = [u \in DOMAIN users \cup {id} |->
                       IF u = id
                       THEN [role |-> "student", groupId |-> req[p].group,
                             totalCoins |-> 0, isActive |-> TRUE]
                       ELSE users[u]]
    /\ nextUser' = nextUser + 1
    /\ req' = Done(p, 200)
    /\ clock' = clock
    /\ UNCHANGED <<ledger, attendance, submissions, shop, nextTx, nextSub,
                   serial, bulk, groups, nextGroup,
                   messages>>

\* ------------------------------------------------ create_group, delete_group
\* the active students of group g
Members(g) ==
    {u \in DOMAIN users :
        /\ users[u].role = "student"
        /\ users[u].isActive
        /\ users[u].groupId = g}

\* group_count = await db.groups.count_documents({}); 400 at six groups
CreateGroupStart(p) ==
    /\ CanStart(p)
    /\ nextGroup < MaxNewGroups
    /\ req' = [req EXCEPT ![p] =
                 IF Cardinality(groups) >= GroupLimit
                 THEN [op |-> "create_group", pc |-> "done", status |-> 400]
                 ELSE [op |-> "create_group", pc |-> "insert", status |-> 0]]
    /\ UNCHANGED <<users, ledger, attendance, submissions, shop, nextUser,
                   nextTx, nextSub, clock, serial, bulk, groups, nextGroup,
                   messages>>

\* result = await db.groups.insert_one(...)
CreateGroupInsert(p) ==
    /\ req[p].op = "create_group"
    /\ req[p].pc = "insert"
    /\ nextGroup < MaxNewGroups
    /\ groups' = groups \cup {GroupLimit + nextGroup + 1}
    /\ nextGroup' = nextGroup + 1
    /\ req' = Done(p, 200)
    /\ UNCHANGED <<users, ledger, attendance, submissions, shop, nextUser,
                   nextTx, nextSub, clock, serial, bulk, messages>>

\* student_count = await db.users.count_documents(...); 400 when it is not 0
DeleteGroupStart(p, g) ==
    /\ CanStart(p)
    /\ req' = [req EXCEPT ![p] =
                 IF Cardinality(Members(g)) > 0
                 THEN [op |-> "delete_group", pc |-> "done", status |-> 400,
                       group |-> g]
                 ELSE [op |-> "delete_group", pc |-> "delete", status |-> 0,
                       group |-> g]]
    /\ UNCHANGED <<users, ledger, attendance, submissions, shop, nextUser,
                   nextTx, nextSub, clock, serial, bulk, groups, nextGroup,
                   messages>>

\* await db.groups.delete_one({"_id": ...})
DeleteGroupDelete(p) ==
    /\ req[p].op = "delete_group"
    /\ req[p].pc = "delete"
    /\ groups' = groups \ {req[p].group}
    /\ req' = Done(p, 200)
    /\ UNCHANGED <<users, ledger, attendance, submissions, shop, nextUser,
                   nextTx, nextSub, clock, serial, bulk, nextGroup, messages>>

\* ----------------------------------------------------------- give_coins
\* the body is validated before the handler runs
GiveCoinsStart(p, s, t, raw) ==
    /\ CanStart(p)
    /\ LET v == ValidateAmount(raw)
       IN  req' = [req EXCEPT ![p] =
                     [op |-> "give_coins", pc |-> IF v.ok THEN "find" ELSE "done",
                      status |-> IF v.ok THEN 0 ELSE 422,
                      student |-> s, teacher |-> t, raw |-> raw,
                      amount |-> v.amount, balance |-> 0,
                      tx |-> 0, readAt |-> 0, wroteAt |-> 0]]
    /\ UNCHANGED <<users, ledger, attendance, submissions, shop, nextUser,
                   nextTx, nextSub, clock, serial, bulk, groups, nextGroup,
                   messages>>

\* student = await db.users.find_one(...); 404 when there is none
GiveCoinsFind(p) ==
    /\ req[p].op = "give_coins"
    /\ req[p].pc = "find"
    /\ req' = IF req[p].student \in DOMAIN users
              THEN [req EXCEPT ![p] =
                      [@ EXCEPT !.pc = "insert", !.readAt = clock,
                                !.balance = GetCoins(users[req[p].student])]]
              ELSE Done(p, 404)
    /\ UNCHANGED <<users, ledger, attendance, submissions, shop, nextUser,
                   nextTx, nextSub, clock, serial, bulk, groups, nextGroup,
                   messages>>

\* await db.coinTransactions.insert_one(...)
GiveCoinsInsert(p) ==
    /\ req[p].op = "give_coins"
    /\ req[p].pc = "insert"
    /\ LedgerRoom
    /\ ledger' = Append(ledger, Entry(req[p].student, req[p].teacher,
                                      req[p].amount, "manual", 0))
    /\ nextTx' = nextTx + 1
    /\ req' = [req EXCEPT ![p] = [@ EXCEPT !.pc = "update", !.tx = nextTx + 1]]
    /\ UNCHANGED <<users, attendance, submissions, shop, nextUser, nextSub,
                   clock, serial, bulk, groups, nextGroup,
                   messages>>

\* give_coins with an atomic increment in place of its read-then-set
GiveCoinsUpdateInc(p) ==
    /\ req[p].op = "give_coins"
    /\ req[p].pc = "update"
    /\ users' = IncCoins(req[p].student, req[p].amount)
    /\ req' = [req EXCEPT ![p] =
                 [@ EXCEPT !.pc = "done", !.status = 200, !.wroteAt = clock + 1]]
    /\ clock' = clock + 1
    /\ UNCHANGED <<ledger, attendance, submissions, shop, nextUser, nextTx,
                   nextSub, serial, bulk, groups, nextGroup,
                   messages>>

\* new_balance = round(current_balance + amount, 2); $set totalCoins
GiveCoinsUpdate(p) ==
    /\ req[p].op = "give_coins"
    /\ req[p].pc = "update"
    /\ users' = SetCoins(req[p].student, req[p].balance + req[p].amount)
    /\ req' = [req EXCEPT ![p] =
                 [@ EXCEPT !.pc = "done", !.status = 200, !.wroteAt = clock + 1]]
    /\ clock' = clock + 1
    /\ UNCHANGED <<ledger, attendance, submissions, shop, nextUser, nextTx,
                   nextSub, serial, bulk, groups, nextGroup,
                   messages>>

\* ------------------------------------------------------ save_attendance
\* the attendance records of (group g, day d), and the others
OfDay(g, d) == SelectSeq(attendance, LAMBDA a : a.groupId = g /\ a.date = d)
NotOfDay(g, d) == SelectSeq(attendance, LAMBDA a : ~(a.groupId = g /\ a.date = d))

\* cursor.to_list(n): the first n documents
ToList(docs, n) == IF Len(docs) <= n THEN docs ELSE SubSeq(docs, 1, n)

\* existing_student_ids
ExistingStudentIds(g, d) ==
    {a.studentId : a \in Range(ToList(OfDay(g, d), ToListLimit))}

\* an automatic coin whatever the status of the entry
AwardsAnyStatus(r, i) == r.roster[i].studentId \notin r.existing

\* entry i of the roster gets the automatic coin
Awards(r, i) ==
    /\ r.roster[i].status = "present"
    /\ r.roster[i].studentId \notin r.existing

\* the indexes, from r.idx on, of the roster entries that get a coin
AwardsFrom(r) == {i \in r.idx .. Len(r.roster) : Awards(r, i)}

Min(S) == CHOOSE x \in S : \A y \in S : x <= y

\* the records list built by the loop
Records(r) ==
    [i \in 1 .. Len(r.roster) |->
        [studentId |-> r.roster[i].studentId, groupId |-> r.group,
         date |-> r.date, status |-> r.roster[i].status]]

\* before is not a variable of the handler: it records the studentIds of all
\* the records of (group, date) at the time of the find
SaveAttendanceStart(p, t, g, d, roster) ==
    /\ CanStart(p)
    /\ req' = [req EXCEPT ![p] =
                 [op |-> "save_attendance", pc |-> "find", status |-> 0,
                  teacher |-> t, group |-> g, date |-> d, roster |-> roster,
                  existing |-> {}, idx |-> 1, coinsGiven |-> 0,
                  resave |-> FALSE, before |-> {}]]
    /\ UNCHANGED <<users, ledger, attendance, submissions, shop, nextUser,
                   nextTx, nextSub, clock, serial, bulk, groups, nextGroup,
                   messages>>

\* existing_attendance = await db.attendance.find({groupId, date}).to_list(100)
SaveAttendanceFind(p) ==
    /\ req[p].op = "save_attendance"
    /\ req[p].pc = "find"
    /\ req' = [req EXCEPT ![p] =
                 [@ EXCEPT !.pc = "delete",
                           !.existing = ExistingStudentIds(req[p].group, req[p].date),
                           !.before = {a.studentId :
                                          a \in Range(OfDay(req[p].group, req[p].date))},
                           !.resave = (OfDay(req[p].group, req[p].date) = Records(req[p]))]]
    /\ UNCHANGED <<users, ledger, attendance, submissions, shop, nextUser,
                   nextTx, nextSub, clock, serial, bulk, groups, nextGroup,
                   messages>>

\* await db.attendance.delete_many({groupId, date})
SaveAttendanceDelete(p) ==
    /\ req[p].op = "save_attendance"
    /\ req[p].pc = "delete"
    /\ attendance' = NotOfDay(req[p].group, req[p].date)
    /\ req' = [req EXCEPT ![p] = [@ EXCEPT !.pc = "loop"]]
    /\ UNCHANGED <<users, ledger, submissions, shop, nextUser, nextTx, nextSub,
                   clock, serial, bulk, groups, nextGroup,
                   messages>>

\* the loop runs on to the next entry that gets a coin:
\* await db.coinTransactions.insert_one(...)
SaveAttendanceInsertTx(p) ==
    /\ req[p].op = "save_attendance"
    /\ req[p].pc = "loop"
    /\ AwardsFrom(req[p]) # {}
    /\ LedgerRoom
    /\ LET i == Min(AwardsFrom(req[p]))
       IN  /\ ledger' = Append(ledger, Entry(req[p].roster[i].studentId,
                                  req[p].teacher, AttendanceCoin,
                                  "Darsga kelish", req[p].date))
           /\ req' = [req EXCEPT ![p] = [@ EXCEPT !.pc = "inc", !.idx = i]]
    /\ nextTx' = nextTx + 1
    /\ UNCHANGED <<users, attendance, submissions, shop, nextUser, nextSub,
                   clock, serial, bulk, groups, nextGroup,
                   messages>>

\* await db.users.update_one(..., {"$inc": {"totalCoins": 1.0}}); coins_given += 1
SaveAttendanceInc(p) ==
    /\ req[p].op = "save_attendance"
    /\ req[p].pc = "inc"
    /\ users' = IncCoins(req[p].roster[req[p].idx].studentId, AttendanceCoin)
    /\ req' = [req EXCEPT ![p] =
                 [@ EXCEPT !.pc = "loop", !.idx = @ + 1,
                           !.coinsGiven = @ + 1]]
    /\ clock' = clock + 1
    /\ UNCHANGED <<ledger, attendance, submissions, shop, nextUser, nextTx,
                   nextSub, serial, bulk, groups, nextGroup,
                   messages>>

\* the loop is over: if records: await db.attendance.insert_many(records)
SaveAttendanceInsertMany(p) ==
    /\ req[p].op = "save_attendance"
    /\ req[p].pc = "loop"
    /\ AwardsFrom(req[p]) = {}
    /\ attendance' = attendance \o Records(req[p])
    /\ req' = Done(p, 200)
    /\ UNCHANGED <<users, ledger, submissions, shop, nextUser, nextTx, nextSub,
                   clock, serial, bulk, groups, nextGroup,
                   messages>>

\* ------------------------------------- start_assignment, complete_assignment
\* update_one({assignmentId, studentId}, {"$set": {"status": st}}, upsert=True):
\* one atomic operation of the store
Upsert(a, s, st) ==
    IF \E i \in 1 .. Len(submissions) :
           submissions[i].assignmentId = a /\ submissions[i].studentId = s
    THEN [i \in 1 .. Len(submissions) |->
            IF submissions[i].assignmentId = a /\ submissions[i].studentId = s
            THEN [submissions[i] EXCEPT !.status = st]
            ELSE submissions[i]]
    ELSE Append(submissions,
                [id |-> nextSub + 1, assignmentId |-> a, studentId |-> s,
                 status |-> st, coinsGiven |-> 0])

SubmissionExists(a, s) ==
    \E i \in 1 .. Len(submissions) :
        submissions[i].assignmentId = a /\ submissions[i].studentId = s

StartAssignment(p, s, a) ==
    /\ CanStart(p)
    /\ IsStudent(s)
    /\ submissions' = Upsert(a, s, "in_progress")
    /\ nextSub' = IF SubmissionExists(a, s) THEN nextSub ELSE nextSub + 1
    /\ UNCHANGED <<users, ledger, attendance, shop, nextUser, nextTx, req,
                   clock, serial, bulk, groups, nextGroup,
                   messages>>

CompleteAssignment(p, s, a) ==
    /\ CanStart(p)
    /\ IsStudent(s)
    /\ submissions' = Upsert(a, s, "submitted")
    /\ nextSub' = IF SubmissionExists(a, s) THEN nextSub ELSE nextSub + 1
    /\ UNCHANGED <<users, ledger, attendance, shop, nextUser, nextTx, req,
                   clock, serial, bulk, groups, nextGroup,
                   messages>>

\* The same two handlers when requests overlap.  The store runs an upsert as a
\* query and then a write: an update of the document the query matched, or an
\* insert when it matched none.  Two upserts can both match none; the insert
\* of the second then meets the unique index on (assignmentId, studentId).
StartAssignmentStart(p, s, a) ==
    /\ CanStart(p)
    /\ IsStudent(s)
    /\ req' = [req EXCEPT ![p] =
                 [op |-> "start_assignment", pc |-> "match", status |-> 0,
                  student |-> s, assignment |-> a, st |-> "in_progress",
                  matched |-> FALSE]]
    /\ UNCHANGED <<users, ledger, attendance, submissions, shop, nextUser,
                   nextTx, nextSub, clock, serial, bulk, groups, nextGroup,
                   messages>>

CompleteAssignmentStart(p, s, a) ==
    /\ CanStart(p)
    /\ IsStudent(s)
    /\ req' = [req EXCEPT ![p] =
                 [op |-> "complete_assignment", pc |-> "match", status |-> 0,
                  student |-> s, assignment |-> a, st |-> "submitted",
                  matched |-> FALSE]]
    /\ UNCHANGED <<users, ledger, attendance, submissions, shop, nextUser,
                   nextTx, nextSub, clock, serial, bulk, groups, nextGroup,
                   messages>>

IsUpsert(r) == r.op \in {"start_assignment", "complete_assignment"}

\* the query of the upsert
UpsertMatch(p) ==
    /\ IsUpsert(req[p])
    /\ req[p].pc = "match"
    /\ req' = [req EXCEPT ![p] =
                 [@ EXCEPT !.pc = "write",
                           !.matched = SubmissionExists(req[p].assignment,
                                                        req[p].student)]]
    /\ UNCHANGED <<users, ledger, attendance, submissions, shop, nextUser,
                   nextTx, nextSub, clock, serial, bulk, groups, nextGroup,
                   messages>>

\* a store without the unique index
DuplicateKeyNoIndex(a, s) == FALSE

\* create_index([("assignmentId", 1), ("studentId", 1)], unique=True): an
\* insert of a second document for the pair is refused
DuplicateKey(a, s) == SubmissionExists(a, s)

\* the write of the upsert.  On a duplicate key the store either retries the
\* upsert, which is then an update, or reports the error, which the handler
\* turns into a 500.
UpsertWrite(p) ==
    /\ IsUpsert(req[p])
    /\ req[p].pc = "write"
    /\ LET a == req[p].assignment
           s == req[p].student
       IN  IF req[p].matched
           THEN /\ submissions' = Upsert(a, s, req[p].st)
                /\ nextSub' = nextSub
                /\ req' = Done(p, 200)
           ELSE IF ~DuplicateKey(a, s)
           THEN /\ submissions' =
                       Append(submissions,
                              [id |-> nextSub + 1, assignmentId |-> a,
                               studentId |-> s, status |-> req[p].st,
                               coinsGiven |-> 0])
                /\ nextSub' = nextSub + 1
                /\ req' = Done(p, 200)
           ELSE \/ /\ submissions' = Upsert(a, s, req[p].st)
                   /\ nextSub' = nextSub
                   /\ req' = Done(p, 200)
                \/ /\ submissions' = submissions
                   /\ nextSub' = nextSub
                   /\ req' = Done(p, 500)
    /\ UNCHANGED <<users, ledger, attendance, shop, nextUser, nextTx, clock,
                   serial, bulk, groups, nextGroup,
                   messages>>

\* ------------------------------------------------------ review_submission
ReviewSubmissionStart(p, t, sid, coins) ==
    /\ CanStart(p)
    /\ req' = [req EXCEPT ![p] =
                 [op |-> "review_submission", pc |-> "find", status |-> 0,
                  teacher |-> t, sub |-> sid, coins |-> coins, student |-> 0]]
    /\ UNCHANGED <<users, ledger, attendance, submissions, shop, nextUser,
                   nextTx, nextSub, clock, serial, bulk, groups, nextGroup,
                   messages>>

\* sub = await db.submissions.find_one({"_id": ...}); 404 when there is none
ReviewSubmissionFind(p) ==
    /\ req[p].op = "review_submission"
    /\ req[p].pc = "find"
    /\ LET found == {i \in 1 .. Len(submissions) : submissions[i].id = req[p].sub}
       IN  req' = IF found = {}
                  THEN Done(p, 404)
                  ELSE [req EXCEPT ![p] =
                          [@ EXCEPT !.pc = "update",
                                    !.student = submissions[Min(found)].studentId]]
    /\ UNCHANGED <<users, ledger, attendance, submissions, shop, nextUser,
                   nextTx, nextSub, clock, serial, bulk, groups, nextGroup,
                   messages>>

\* review_submission awarding only the first review of a submission
ReviewSubmissionUpdateOnce(p) ==
    /\ req[p].op = "review_submission"
    /\ req[p].pc = "update"
    /\ submissions' =
           [i \in 1 .. Len(submissions) |->
               IF submissions[i].id = req[p].sub
               THEN [submissions[i] EXCEPT !.status = "reviewed",
                                           !.coinsGiven = req[p].coins]
               ELSE submissions[i]]
    /\ req' = IF /\ req[p].coins > 0
                 /\ \A i \in 1 .. Len(submissions) :
                        submissions[i].id = req[p].sub =>
                            submissions[i].status # "reviewed"
              THEN [req EXCEPT ![p] = [@ EXCEPT !.pc = "insert"]]
              ELSE Done(p, 200)
    /\ UNCHANGED <<users, ledger, attendance, shop, nextUser, nextTx, nextSub,
                   clock, serial, bulk, groups, nextGroup,
                   messages>>

\* review_submission without its test coinsGiven > 0
ReviewSubmissionUpdateAlwaysAward(p) ==
    /\ req[p].op = "review_submission"
    /\ req[p].pc = "update"
    /\ submissions' =
           [i \in 1 .. Len(submissions) |->
               IF submissions[i].id = req[p].sub
               THEN [submissions[i] EXCEPT !.status = "reviewed",
                                           !.coinsGiven = req[p].coins]
               ELSE submissions[i]]
    /\ req' = [req EXCEPT ![p] = [@ EXCEPT !.pc = "insert"]]
    /\ UNCHANGED <<users, ledger, attendance, shop, nextUser, nextTx, nextSub,
                   clock, serial, bulk, groups, nextGroup,
                   messages>>

\* await db.submissions.update_one({"_id": ...}, {"$set": {status, coinsGiven}})
ReviewSubmissionUpdate(p) ==
    /\ req[p].op = "review_submission"
    /\ req[p].pc = "update"
    /\ submissions' =
           [i \in 1 .. Len(submissions) |->
               IF submissions[i].id = req[p].sub
               THEN [submissions[i] EXCEPT !.status = "reviewed",
                                           !.coinsGiven = req[p].coins]
               ELSE submissions[i]]
    /\ req' = IF req[p].coins > 0
              THEN [req EXCEPT ![p] = [@ EXCEPT !.pc = "insert"]]
              ELSE Done(p, 200)
    /\ UNCHANGED <<users, ledger, attendance, shop, nextUser, nextTx, nextSub,
                   clock, serial, bulk, groups, nextGroup,
                   messages>>

\* await db.coinTransactions.insert_one(...)
ReviewSubmissionInsert(p) ==
    /\ req[p].op = "review_submission"
    /\ req[p].pc = "insert"
    /\ LedgerRoom
    /\ ledger' = Append(ledger, Entry(req[p].student, req[p].teacher,
                                      100 * req[p].coins, "Topshiriq uchun", 0))
    /\ nextTx' = nextTx + 1
    /\ req' = [req EXCEPT ![p] = [@ EXCEPT !.pc = "inc"]]
    /\ UNCHANGED <<users, attendance, submissions, shop, nextUser, nextSub,
                   clock, serial, bulk, groups, nextGroup,
                   messages>>

\* review_submission writing the award with $set in place of $inc
ReviewSubmissionIncSet(p) ==
    /\ req[p].op = "review_submission"
    /\ req[p].pc = "inc"
    /\ users' = SetCoins(req[p].student, 100 * req[p].coins)
    /\ req' = Done(p, 200)
    /\ UNCHANGED <<ledger, attendance, submissions, shop, nextUser, nextTx,
                   nextSub, clock, serial, bulk, groups, nextGroup,
                   messages>>

\* await db.users.update_one(..., {"$inc": {"totalCoins": coinsGiven}})
ReviewSubmissionInc(p) ==
    /\ req[p].op = "review_submission"
    /\ req[p].pc = "inc"
    /\ users' = IncCoins(req[p].student, 100 * req[p].coins)
    /\ req' = Done(p, 200)
    /\ clock' = clock + 1
    /\ UNCHANGED <<ledger, attendance, submissions, shop, nextUser, nextTx,
                   nextSub, serial, bulk, groups, nextGroup,
                   messages>>

\* --------------------------------------------------- update_shop_settings
\* update_one({}, {"$set": {"isOpen": data.get("isOpen", False), ...}}, upsert=True)
\* data.get("isOpen", True): a body without isOpen opens the shop
IsOpenOfDefaultTrue(data) == IF "isOpen" \in DOMAIN data THEN data.isOpen ELSE TRUE

\* data.get("isOpen", False)
IsOpenOf(data) == IF "isOpen" \in DOMAIN data THEN data.isOpen ELSE FALSE

UpdateShopSettings(p, data) ==
    /\ CanStart(p)
    /\ shop' = IF shop = <<>>
               THEN <<[isOpen |-> IsOpenOf(data)]>>
               ELSE [shop EXCEPT ![1] = [@ EXCEPT !.isOpen = IsOpenOf(data)]]
    /\ UNCHANGED <<users, ledger, attendance, submissions, nextUser, nextTx,
                   nextSub, req, clock, serial, bulk, groups, nextGroup,
                   messages>>

\* ---------------------------------------------------------- redeem_reward
\* seed_data: the rewards and their prices
Rewards == (Konfet :> KonfetPrice) @@ (2 :> 10) @@ (3 :> 20)

Fail(p, code, detail) ==
    [req EXCEPT ![p] = [@ EXCEPT !.pc = "done", !.status = code, !.detail = detail]]

RedeemRewardStart(p, s, r) ==
    /\ CanStart(p)
    /\ IsStudent(s)
    /\ req' = [req EXCEPT ![p] =
                 [op |-> "redeem_reward", pc |-> "settings", status |-> 0,
                  detail |-> "", student |-> s, reward |-> r, price |-> 0,
                  balance |-> 0]]
    /\ UNCHANGED <<users, ledger, attendance, submissions, shop, nextUser,
                   nextTx, nextSub, clock, serial, bulk, groups, nextGroup,
                   messages>>

\* redeem_reward taking a missing settings document for an open shop
RedeemRewardSettingsMissingIsOpen(p) ==
    /\ req[p].op = "redeem_reward"
    /\ req[p].pc = "settings"
    /\ req' = IF shop # <<>> /\ ~shop[1].isOpen
              THEN Fail(p, 400, "closed")
              ELSE [req EXCEPT ![p] = [@ EXCEPT !.pc = "reward"]]
    /\ UNCHANGED <<users, ledger, attendance, submissions, shop, nextUser,
                   nextTx, nextSub, clock, serial, bulk, groups, nextGroup,
                   messages>>

\* settings = await db.shopSettings.find_one()
RedeemRewardSettings(p) ==
    /\ req[p].op = "redeem_reward"
    /\ req[p].pc = "settings"
    /\ req' = IF shop = <<>> \/ ~shop[1].isOpen
              THEN Fail(p, 400, "closed")
              ELSE [req EXCEPT ![p] = [@ EXCEPT !.pc = "reward"]]
    /\ UNCHANGED <<users, ledger, attendance, submissions, shop, nextUser,
                   nextTx, nextSub, clock, serial, bulk, groups, nextGroup,
                   messages>>

\* reward = await db.rewards.find_one({"_id": ...})
RedeemRewardReward(p) ==
    /\ req[p].op = "redeem_reward"
    /\ req[p].pc = "reward"
    /\ req' = IF req[p].reward \notin DOMAIN Rewards
              THEN Fail(p, 404, "no reward")
              ELSE [req EXCEPT ![p] =
                      [@ EXCEPT !.pc = "student",
                                !.price = 100 * Rewards[req[p].reward]]]
    /\ UNCHANGED <<users, ledger, attendance, submissions, shop, nextUser,
                   nextTx, nextSub, clock, serial, bulk, groups, nextGroup,
                   messages>>

\* redeem_reward refusing a balance equal to the price
RedeemRewardStudentStrict(p) ==
    /\ req[p].op = "redeem_reward"
    /\ req[p].pc = "student"
    /\ req' = IF req[p].student \notin DOMAIN users
              THEN Fail(p, 500, "error")
              ELSE IF GetCoins(users[req[p].student]) <= req[p].price
              THEN Fail(p, 400, "insufficient")
              ELSE [req EXCEPT ![p] =
                      [@ EXCEPT !.pc = "update",
                                !.balance = users[req[p].student].totalCoins]]
    /\ UNCHANGED <<users, ledger, attendance, submissions, shop, nextUser,
                   nextTx, nextSub, clock, serial, bulk, groups, nextGroup,
                   messages>>

\* student = await db.users.find_one(...); totalCoins < price is refused.
\* No document (the student was deleted meanwhile): student.get raises, 500.
RedeemRewardStudent(p) ==
    /\ req[p].op = "redeem_reward"
    /\ req[p].pc = "student"
    /\ req' = IF req[p].student \notin DOMAIN users
              THEN Fail(p, 500, "error")
              ELSE IF GetCoins(users[req[p].student]) < req[p].price
              THEN Fail(p, 400, "insufficient")
              ELSE [req EXCEPT ![p] =
                      [@ EXCEPT !.pc = "update",
                                !.balance = users[req[p].student].totalCoins]]
    /\ UNCHANGED <<users, ledger, attendance, submissions, shop, nextUser,
                   nextTx, nextSub, clock, serial, bulk, groups, nextGroup,
                   messages>>

\* new_balance = student["totalCoins"] - reward["price"]; $set totalCoins.
\* The model takes this step only while the insert after it has room.
RedeemRewardUpdate(p) ==
    /\ req[p].op = "redeem_reward"
    /\ req[p].pc = "update"
    /\ LedgerRoom
    /\ users' = SetCoins(req[p].student, req[p].balance - req[p].price)
    /\ req' = [req EXCEPT ![p] = [@ EXCEPT !.pc = "insert"]]
    /\ clock' = clock + 1
    /\ UNCHANGED <<ledger, attendance, submissions, shop, nextUser, nextTx,
                   nextSub, serial, bulk, groups, nextGroup,
                   messages>>

\* await db.coinTransactions.insert_one(...): the student is the actor too
RedeemRewardInsert(p) ==
    /\ req[p].op = "redeem_reward"
    /\ req[p].pc = "insert"
    /\ LedgerRoom
    /\ ledger' = Append(ledger, Entry(req[p].student, req[p].student,
                                      -req[p].price, "Sovg'a", 0))
    /\ nextTx' = nextTx + 1
    /\ req' = Done(p, 200)
    /\ UNCHANGED <<users, attendance, submissions, shop, nextUser, nextSub,
                   clock, serial, bulk, groups, nextGroup,
                   messages>>

\* ------------------------------------- send_teacher_message, send_student_message
\* the caller is authenticated as an active teacher (get_current_user,
\* require_teacher)
IsTeacher(t) ==
    t \in DOMAIN users /\ users[t].role = "teacher" /\ users[t].isActive

\* recipient = await db.users.find_one({"_id": ...}); 404 when there is none
SendTeacherMessageStart(p, t, to) ==
    /\ CanStart(p)
    /\ IsTeacher(t)
    /\ Len(messages) < MaxMessages
    /\ req' = [req EXCEPT ![p] =
                 IF to \in DOMAIN users
                 THEN [op |-> "send_message", pc |-> "insert", status |-> 0,
                       from |-> t, to |-> to]
                 ELSE [op |-> "send_message", pc |-> "done", status |-> 404,
                       from |-> t, to |-> to]]
    /\ UNCHANGED <<users, ledger, attendance, submissions, shop, nextUser,
                   nextTx, nextSub, clock, serial, bulk, groups, nextGroup,
                   messages>>

\* teacher = await db.users.find_one({"_id": ..., "role": "teacher"}); 400
\* when there is none
SendStudentMessageStart(p, s, to) ==
    /\ CanStart(p)
    /\ IsStudent(s)
    /\ Len(messages) < MaxMessages
    /\ req' = [req EXCEPT ![p] =
                 IF to \in DOMAIN users /\ users[to].role = "teacher"
                 THEN [op |-> "send_message", pc |-> "insert", status |-> 0,
                       from |-> s, to |-> to]
                 ELSE [op |-> "send_message", pc |-> "done", status |-> 400,
                       from |-> s, to |-> to]]
    /\ UNCHANGED <<users, ledger, attendance, submissions, shop, nextUser,
                   nextTx, nextSub, clock, serial, bulk, groups, nextGroup,
                   messages>>

\* await db.messages.insert_one({"fromUserId": ..., "toUserId": ..., ...})
SendMessageInsert(p) ==
    /\ req[p].op = "send_message"
    /\ req[p].pc = "insert"
    /\ messages' = Append(messages,
                          [fromUserId |-> req[p].from, toUserId |-> req[p].to])
    /\ req' = Done(p, 200)
    /\ UNCHANGED <<users, ledger, attendance, submissions, shop, nextUser,
                   nextTx, nextSub, clock, serial, bulk, groups, nextGroup>>

\* --------------------------------------------------------- delete_student
\* removed is not a field of the request: it records how many messages the
\* request deleted
DeleteStudentStart(p, s) ==
    /\ CanStart(p)
    /\ req' = [req EXCEPT ![p] =
                 [op |-> "delete_student", pc |-> "find", status |-> 0,
                  student |-> s, removed |-> 0]]
    /\ UNCHANGED <<users, ledger, attendance, submissions, shop, nextUser,
                   nextTx, nextSub, clock, serial, bulk, groups, nextGroup,
                   messages>>

\* student = await db.users.find_one(...); 404 when there is none
DeleteStudentFind(p) ==
    /\ req[p].op = "delete_student"
    /\ req[p].pc = "find"
    /\ req' = IF req[p].student \in DOMAIN users
              THEN [req EXCEPT ![p] = [@ EXCEPT !.pc = "users"]]
              ELSE Done(p, 404)
    /\ UNCHANGED <<users, ledger, attendance, submissions, shop, nextUser,
                   nextTx, nextSub, clock, serial, bulk, groups, nextGroup,
                   messages>>

\* await db.users.delete_one({"_id": student_oid})
DeleteStudentUsers(p) ==
    /\ req[p].op = "delete_student"
    /\ req[p].pc = "users"
    /\ users' = [u \in DOMAIN users \ {req[p].student} |-> users[u]]
    /\ req' = [req EXCEPT ![p] = [@ EXCEPT !.pc = "ledger"]]
    /\ clock' = clock
    /\ UNCHANGED <<ledger, attendance, submissions, shop, nextUser, nextTx,
                   nextSub, serial, bulk, groups, nextGroup,
                   messages>>

\* delete_student with a delete_many that forgets its filter
DeleteStudentLedgerAll(p) ==
    /\ req[p].op = "delete_student"
    /\ req[p].pc = "ledger"
    /\ ledger' = <<>>
    /\ req' = [req EXCEPT ![p] = [@ EXCEPT !.pc = "attendance"]]
    /\ UNCHANGED <<users, attendance, submissions, shop, nextUser, nextTx,
                   nextSub, clock, serial, bulk, groups, nextGroup,
                   messages>>

\* await db.coinTransactions.delete_many({"studentId": student_oid})
DeleteStudentLedger(p) ==
    /\ req[p].op = "delete_student"
    /\ req[p].pc = "ledger"
    /\ ledger' = SelectSeq(ledger, LAMBDA e : e.studentId # req[p].student)
    /\ req' = [req EXCEPT ![p] = [@ EXCEPT !.pc = "attendance"]]
    /\ UNCHANGED <<users, attendance, submissions, shop, nextUser, nextTx,
                   nextSub, clock, serial, bulk, groups, nextGroup,
                   messages>>

\* await db.attendance.delete_many({"studentId": student_oid})
DeleteStudentAttendance(p) ==
    /\ req[p].op = "delete_student"
    /\ req[p].pc = "attendance"
    /\ attendance' = SelectSeq(attendance, LAMBDA a : a.studentId # req[p].student)
    /\ req' = [req EXCEPT ![p] = [@ EXCEPT !.pc = "submissions"]]
    /\ UNCHANGED <<users, ledger, submissions, shop, nextUser, nextTx, nextSub,
                   clock, serial, bulk, groups, nextGroup,
                   messages>>

\* await db.submissions.delete_many({"studentId": student_oid})
DeleteStudentSubmissions(p) ==
    /\ req[p].op = "delete_student"
    /\ req[p].pc = "submissions"
    /\ submissions' = SelectSeq(submissions, LAMBDA b : b.studentId # req[p].student)
    /\ req' = [req EXCEPT ![p] = [@ EXCEPT !.pc = "messages"]]
    /\ UNCHANGED <<users, ledger, attendance, shop, nextUser, nextTx, nextSub,
                   clock, serial, bulk, groups, nextGroup,
                   messages>>

\* the messages delete_student keeps: neither from nor to the student
KeptMessagesFromOnly(s) ==
    SelectSeq(messages, LAMBDA m : m.fromUserId # s)

KeptMessages(s) ==
    SelectSeq(messages, LAMBDA m : m.fromUserId # s /\ m.toUserId # s)

\* await db.messages.delete_many({"$or": [{"fromUserId": ...}, {"toUserId": ...}]})
DeleteStudentMessages(p) ==
    /\ req[p].op = "delete_student"
    /\ req[p].pc = "messages"
    /\ messages' = KeptMessages(req[p].student)
    /\ req' = [req EXCEPT ![p] =
                 [@ EXCEPT !.pc = "done", !.status = 200,
                           !.removed = Len(messages) - Len(messages')]]
    /\ UNCHANGED <<users, ledger, attendance, submissions, shop, nextUser,
                   nextTx, nextSub, clock, serial, bulk, groups, nextGroup>>

\* ------------------------------------------------------- levels and rankings
\* calculate_level with > in place of >=
CalculateLevelStrict(c) ==
    IF c > 100 * SeniorCoins THEN "Senior Robotsoz"
    ELSE IF c > 100 * MiddleCoins THEN "Middle Robotsoz"
    ELSE "Junior Robotsoz"

\* calculate_level(coins), coins in hundredths
CalculateLevel(c) ==
    IF c >= 100 * SeniorCoins THEN "Senior Robotsoz"
    ELSE IF c >= 100 * MiddleCoins THEN "Middle Robotsoz"
    ELSE "Junior Robotsoz"

\* coins_to_next_level(coins), coins and result in hundredths
CoinsToNextLevel(c) ==
    IF c >= 100 * SeniorCoins THEN 0
    ELSE IF c >= 100 * MiddleCoins THEN 100 * SeniorCoins - c
    ELSE 100 * MiddleCoins - c

\* get_student: student = await db.users.find_one({"_id": ...}); 404 when there
\* is none; the answer has level and coinsToNextLevel of the document read
GetStudent(p, s) ==
    /\ CanStart(p)
    /\ req' = [req EXCEPT ![p] =
                 IF s \in DOMAIN users
                 THEN [op |-> "get_student", pc |-> "done", status |-> 200,
                       student |-> s,
                       totalCoins |-> GetCoins(users[s]),
                       level |-> CalculateLevel(GetCoins(users[s])),
                       coinsToNextLevel |-> CoinsToNextLevel(GetCoins(users[s]))]
                 ELSE [op |-> "get_student", pc |-> "done", status |-> 404,
                       student |-> s]]
    /\ UNCHANGED <<users, ledger, attendance, submissions, shop, nextUser,
                   nextTx, nextSub, clock, serial, bulk, groups, nextGroup,
                   messages>>

\* the ids of the documents find({"role": "student", "isActive": True})
\* matches, in the order of their insertion
ActiveStudents ==
    SelectSeq([i \in 1 .. nextUser |-> 10 + i], LAMBDA u : IsStudent(u))

\* sort("totalCoins", -1): document a comes before document b; the store
\* leaves the order of equal keys open, asc is the order it takes here
RankBefore(asc, a, b) ==
    \/ GetCoins(users[a]) > GetCoins(users[b])
    \/ /\ GetCoins(users[a]) = GetCoins(users[b])
       /\ IF asc THEN a < b ELSE a > b

SortByCoins(ids, asc) == SortSeq(ids, LAMBDA a, b : RankBefore(asc, a, b))

\* the rows of a ranking: rank i + 1 for the i-th document of the cursor
RankRows(ids) ==
    [i \in 1 .. Len(ids) |->
        [rank |-> i, id |-> ids[i], totalCoins |-> GetCoins(users[ids[i]]),
         level |-> CalculateLevel(GetCoins(users[ids[i]]))]]

\* global_rankings: find(...).sort("totalCoins", -1).to_list(500)
GlobalRankings(p, asc) ==
    /\ CanStart(p)
    /\ req' = [req EXCEPT ![p] =
                 [op |-> "global_rankings", pc |-> "done", status |-> 200,
                  rows |-> RankRows(ToList(SortByCoins(ActiveStudents, asc),
                                           RankLimit))]]
    /\ UNCHANGED <<users, ledger, attendance, submissions, shop, nextUser,
                   nextTx, nextSub, clock, serial, bulk, groups, nextGroup,
                   messages>>

\* group_rankings: find({..., "groupId": g}).sort("totalCoins", -1).to_list(100)
GroupRankings(p, g, asc) ==
    /\ CanStart(p)
    /\ LET ids == SelectSeq(ActiveStudents, LAMBDA u : users[u].groupId = g)
       IN  req' = [req EXCEPT ![p] =
                     [op |-> "group_rankings", pc |-> "done", status |-> 200,
                      group |-> g,
                      rows |-> RankRows(ToList(SortByCoins(ids, asc),
                                               GroupRankLimit))]]
    /\ UNCHANGED <<users, ledger, attendance, submissions, shop, nextUser,
                   nextTx, nextSub, clock, serial, bulk, groups, nextGroup,
                   messages>>

\* next((i + 1 for i, s in enumerate(docs) if s["_id"] == id), 0)
RankIn(ids, id) ==
    IF \E i \in 1 .. Len(ids) : ids[i] = id
    THEN CHOOSE i \in 1 .. Len(ids) : ids[i] = id
    ELSE 0

\* get_student_public_profile: student = await db.users.find_one({"_id": ...,
\* "role": "student", "isActive": True}); 404 when there is none
PublicProfileStart(p, s) ==
    /\ CanStart(p)
    /\ req' = [req EXCEPT ![p] =
                 IF IsStudent(s)
                 THEN [op |-> "public_profile", pc |-> "rank", status |-> 0,
                       student |-> s, group |-> users[s].groupId,
                       level |-> CalculateLevel(GetCoins(users[s])),
                       globalRank |-> 0, globalTotal |-> 0,
                       groupRank |-> 0, groupTotal |-> 0]
                 ELSE [op |-> "public_profile", pc |-> "done", status |-> 404,
                       student |-> s]]
    /\ UNCHANGED <<users, ledger, attendance, submissions, shop, nextUser,
                   nextTx, nextSub, clock, serial, bulk, groups, nextGroup,
                   messages>>

\* all_students = await db.users.find(...).sort("totalCoins", -1).to_list(500);
\* the ranks and totals are taken from this list
PublicProfileRank(p, asc) ==
    /\ req[p].op = "public_profile"
    /\ req[p].pc = "rank"
    /\ LET all == ToList(SortByCoins(ActiveStudents, asc), RankLimit)
           grp == SelectSeq(all, LAMBDA u : users[u].groupId = req[p].group)
       IN  req' = [req EXCEPT ![p] =
                     [@ EXCEPT !.pc = "done", !.status = 200,
                               !.globalRank = RankIn(all, req[p].student),
                               !.globalTotal = Len(all),
                               !.groupRank = RankIn(grp, req[p].student),
                               !.groupTotal = Len(grp)]]
    /\ UNCHANGED <<users, ledger, attendance, submissions, shop, nextUser,
                   nextTx, nextSub, clock, serial, bulk, groups, nextGroup,
                   messages>>

\* ------------------------------------------------------------------ inputs
RosterEntries(ids) == [studentId : ids, status : Statuses]
Rosters(ids, n) == UNION {[1 .. k -> RosterEntries(ids)] : k \in 0 .. n}
Coins == {0, 2}                    \* SubmissionReview.coinsGiven
\* bodies of update_shop_settings: isOpen true, false, and left out
ShopBodies == {[isOpen |-> TRUE], [isOpen |-> FALSE], [openDate |-> 0]}
SubmissionIds == 1 .. (nextSub + 1)  \* the ids in use, and one of no document
ReviewCoins == {0, 1, 2}           \* SubmissionReview.coinsGiven, two of them positive

\* -------------------------------------------------------------------- Next
\* the requests of the setup: students, the shop, the assignment
Setup ==
    \/ \E p \in Slots, g \in {1} : CreateStudentStart(p, g)
    \/ \E p \in Slots : CreateStudentInsert(p)
    \/ \E p \in Slots, s \in KnownIds : StartAssignment(p, s, Assignment)
    \/ \E p \in Slots, s \in KnownIds : CompleteAssignment(p, s, Assignment)
    \/ \E p \in Slots, data \in ShopBodies : UpdateShopSettings(p, data)

\* the four producers of ledger entries, and delete_student; attendance is
\* saved for the groups gs, the days ds and the rosters rs
Producers(gs, ds, rs) ==
    \/ \E p \in Slots : Finish(p)
    \/ \E p \in Slots, s \in TargetIds, raw \in RawAmounts :
           GiveCoinsStart(p, s, 1, raw)
    \/ \E p \in Slots : GiveCoinsFind(p)
    \/ \E p \in Slots : GiveCoinsInsert(p)
    \/ \E p \in Slots : GiveCoinsUpdate(p)
    \/ \E p \in Slots, g \in gs, d \in ds, roster \in rs :
           SaveAttendanceStart(p, 1, g, d, roster)
    \/ \E p \in Slots : SaveAttendanceFind(p)
    \/ \E p \in Slots : SaveAttendanceDelete(p)
    \/ \E p \in Slots : SaveAttendanceInsertTx(p)
    \/ \E p \in Slots : SaveAttendanceInc(p)
    \/ \E p \in Slots : SaveAttendanceInsertMany(p)
    \/ \E p \in Slots, sid \in SubmissionIds, c \in Coins :
           ReviewSubmissionStart(p, 1, sid, c)
    \/ \E p \in Slots : ReviewSubmissionFind(p)
    \/ \E p \in Slots : ReviewSubmissionUpdate(p)
    \/ \E p \in Slots : ReviewSubmissionInsert(p)
    \/ \E p \in Slots : ReviewSubmissionInc(p)
    \/ \E p \in Slots, s \in KnownIds, r \in {Konfet, NoReward} :
           RedeemRewardStart(p, s, r)
    \/ \E p \in Slots : RedeemRewardSettings(p)
    \/ \E p \in Slots : RedeemRewardReward(p)
    \/ \E p \in Slots : RedeemRewardStudent(p)
    \/ \E p \in Slots : RedeemRewardUpdate(p)
    \/ \E p \in Slots : RedeemRewardInsert(p)
    \/ \E p \in Slots, s \in TargetIds : DeleteStudentStart(p, s)
    \/ \E p \in Slots : DeleteStudentFind(p)
    \/ \E p \in Slots : DeleteStudentUsers(p)
    \/ \E p \in Slots : DeleteStudentLedger(p)
    \/ \E p \in Slots : DeleteStudentAttendance(p)
    \/ \E p \in Slots : DeleteStudentSubmissions(p)
    \/ \E p \in Slots : DeleteStudentMessages(p)

\* save_attendance alone
Attendance(gs, ds, rs) ==
    \/ \E p \in Slots : Finish(p)
    \/ \E p \in Slots, g \in gs, d \in ds, roster \in rs :
           SaveAttendanceStart(p, 1, g, d, roster)
    \/ \E p \in Slots : SaveAttendanceFind(p)
    \/ \E p \in Slots : SaveAttendanceDelete(p)
    \/ \E p \in Slots : SaveAttendanceInsertTx(p)
    \/ \E p \in Slots : SaveAttendanceInc(p)
    \/ \E p \in Slots : SaveAttendanceInsertMany(p)

\* the read-then-write producers and the review award, overlapping
Next ==
    \/ \E p \in Slots : Finish(p)
    \/ \E p \in Slots, s \in TargetIds, raw \in RawAmounts :
           GiveCoinsStart(p, s, 1, raw)
    \/ \E p \in Slots : GiveCoinsFind(p)
    \/ \E p \in Slots : GiveCoinsInsert(p)
    \/ \E p \in Slots : GiveCoinsUpdate(p)
    \/ \E p \in Slots, sid \in SubmissionIds, c \in Coins :
           ReviewSubmissionStart(p, 1, sid, c)
    \/ \E p \in Slots : ReviewSubmissionFind(p)
    \/ \E p \in Slots : ReviewSubmissionUpdate(p)
    \/ \E p \in Slots : ReviewSubmissionInsert(p)
    \/ \E p \in Slots : ReviewSubmissionInc(p)
    \/ \E p \in Slots, s \in KnownIds, r \in {Konfet, NoReward} :
           RedeemRewardStart(p, s, r)
    \/ \E p \in Slots : RedeemRewardSettings(p)
    \/ \E p \in Slots : RedeemRewardReward(p)
    \/ \E p \in Slots : RedeemRewardStudent(p)
    \/ \E p \in Slots : RedeemRewardUpdate(p)
    \/ \E p \in Slots : RedeemRewardInsert(p)

NextSerial == Setup \/ Producers({1}, Dates, Rosters(TargetIds, 1))

NextAttendance == Attendance(Groups, Dates, Rosters({11}, MaxRoster))

\* one roster of more entries than to_list(100) returns, all present
BulkRoster ==
    [i \in 1 .. (ToListLimit + 1) |-> [studentId |-> 100 + i, status |-> "present"]]

NextBulk == Attendance({1}, Dates, {BulkRoster})

\* redeem_reward alone, overlapping, for every reward and for one of no document
NextShop ==
    \/ \E p \in Slots : Finish(p)
    \/ \E p \in Slots, s \in KnownIds, r \in DOMAIN Rewards \cup {NoReward} :
           RedeemRewardStart(p, s, r)
    \/ \E p \in Slots : RedeemRewardSettings(p)
    \/ \E p \in Slots : RedeemRewardReward(p)
    \/ \E p \in Slots : RedeemRewardStudent(p)
    \/ \E p \in Slots : RedeemRewardUpdate(p)
    \/ \E p \in Slots : RedeemRewardInsert(p)

\* give_coins by either teacher, for any user document (find_one looks the
\* id up whatever its role), and redeem_reward; one request at a time
NextStaff ==
    \/ \E p \in Slots : Finish(p)
    \/ \E p \in Slots, s \in Teachers \cup KnownIds, t \in Teachers,
          raw \in RawAmounts :
           GiveCoinsStart(p, s, t, raw)
    \/ \E p \in Slots : GiveCoinsFind(p)
    \/ \E p \in Slots : GiveCoinsInsert(p)
    \/ \E p \in Slots : GiveCoinsUpdate(p)
    \/ \E p \in Slots, s \in KnownIds : RedeemRewardStart(p, s, Konfet)
    \/ \E p \in Slots : RedeemRewardSettings(p)
    \/ \E p \in Slots : RedeemRewardReward(p)
    \/ \E p \in Slots : RedeemRewardStudent(p)
    \/ \E p \in Slots : RedeemRewardUpdate(p)
    \/ \E p \in Slots : RedeemRewardInsert(p)

\* review_submission alone, one request at a time
NextReview ==
    \/ \E p \in Slots : Finish(p)
    \/ \E p \in Slots, sid \in SubmissionIds, c \in ReviewCoins :
           ReviewSubmissionStart(p, 1, sid, c)
    \/ \E p \in Slots : ReviewSubmissionFind(p)
    \/ \E p \in Slots : ReviewSubmissionUpdate(p)
    \/ \E p \in Slots : ReviewSubmissionInsert(p)
    \/ \E p \in Slots : ReviewSubmissionInc(p)

\* the student's start and complete requests and the teacher's reviews,
\* overlapping
NextWorkflow ==
    \/ \E p \in Slots : Finish(p)
    \/ \E p \in Slots, s \in KnownIds : StartAssignmentStart(p, s, Assignment)
    \/ \E p \in Slots, s \in KnownIds : CompleteAssignmentStart(p, s, Assignment)
    \/ \E p \in Slots : UpsertMatch(p)
    \/ \E p \in Slots : UpsertWrite(p)
    \/ \E p \in Slots, sid \in SubmissionIds, c \in Coins :
           ReviewSubmissionStart(p, 1, sid, c)
    \/ \E p \in Slots : ReviewSubmissionFind(p)
    \/ \E p \in Slots : ReviewSubmissionUpdate(p)
    \/ \E p \in Slots : ReviewSubmissionInsert(p)
    \/ \E p \in Slots : ReviewSubmissionInc(p)

\* students and groups created and groups deleted, overlapping
NextGroups ==
    \/ \E p \in Slots : Finish(p)
    \/ \E p \in Slots, g \in Groups \cup {GhostGroup} : CreateStudentStart(p, g)
    \/ \E p \in Slots : CreateStudentInsert(p)
    \/ \E p \in Slots : CreateGroupStart(p)
    \/ \E p \in Slots : CreateGroupInsert(p)
    \/ \E p \in Slots, g \in Groups : DeleteGroupStart(p, g)
    \/ \E p \in Slots : DeleteGroupDelete(p)

\* messages between teachers and students, and delete_student for a student,
\* a teacher and an id of no user
NextCascade ==
    \/ \E p \in Slots : Finish(p)
    \/ \E p \in Slots, t \in Teachers, to \in {1, 11, 12, GhostId} :
           SendTeacherMessageStart(p, t, to)
    \/ \E p \in Slots, s \in {11, 12}, to \in {1, 11, 12} :
           SendStudentMessageStart(p, s, to)
    \/ \E p \in Slots : SendMessageInsert(p)
    \/ \E p \in Slots, s \in {11, 12, 2, GhostId} : DeleteStudentStart(p, s)
    \/ \E p \in Slots : DeleteStudentFind(p)
    \/ \E p \in Slots : DeleteStudentUsers(p)
    \/ \E p \in Slots : DeleteStudentLedger(p)
    \/ \E p \in Slots : DeleteStudentAttendance(p)
    \/ \E p \in Slots : DeleteStudentSubmissions(p)
    \/ \E p \in Slots : DeleteStudentMessages(p)

\* the requests that answer with levels and rankings, for the users ss and
\* the groups gs
Readers(ss, gs) ==
    \/ \E p \in Slots : Finish(p)
    \/ \E p \in Slots, s \in ss : GetStudent(p, s)
    \/ \E p \in Slots, asc \in BOOLEAN : GlobalRankings(p, asc)
    \/ \E p \in Slots, g \in gs, asc \in BOOLEAN : GroupRankings(p, g, asc)
    \/ \E p \in Slots, s \in ss : PublicProfileStart(p, s)
    \/ \E p \in Slots, asc \in BOOLEAN : PublicProfileRank(p, asc)

NextLevel == Readers({11, 12, 2, GhostId}, Groups)

\* the first and the last student get coins, and the rankings are read
NextRanking ==
    \/ Readers({11, 11 + RankLimit}, {1})
    \/ \E p \in Slots, s \in {11, 11 + RankLimit} : GiveCoinsStart(p, s, 1, 5000)
    \/ \E p \in Slots : GiveCoinsFind(p)
    \/ \E p \in Slots : GiveCoinsInsert(p)
    \/ \E p \in Slots : GiveCoinsUpdate(p)

\* no save_attendance for (group g, day d) is at work
KeyFree(g, d) ==
    \A q \in Slots :
        (req[q].op = "save_attendance" /\ req[q].pc # "done") =>
            ~(req[q].group = g /\ req[q].date = d)

\* review_submission and save_attendance overlapping, the save_attendance
\* requests at work at one time each for a (group, day) of its own
NextInc ==
    \/ \E p \in Slots : Finish(p)
    \/ \E p \in Slots, sid \in SubmissionIds, c \in Coins :
           ReviewSubmissionStart(p, 1, sid, c)
    \/ \E p \in Slots : ReviewSubmissionFind(p)
    \/ \E p \in Slots : ReviewSubmissionUpdate(p)
    \/ \E p \in Slots : ReviewSubmissionInsert(p)
    \/ \E p \in Slots : ReviewSubmissionInc(p)
    \/ \E p \in Slots, g \in Groups, d \in Dates, roster \in Rosters({11}, 1) :
           KeyFree(g, d) /\ SaveAttendanceStart(p, 1, g, d, roster)
    \/ \E p \in Slots : SaveAttendanceFind(p)
    \/ \E p \in Slots : SaveAttendanceDelete(p)
    \/ \E p \in Slots : SaveAttendanceInsertTx(p)
    \/ \E p \in Slots : SaveAttendanceInc(p)
    \/ \E p \in Slots : SaveAttendanceInsertMany(p)

\* overlapping requests in the class at work
Spec == Init /\ [][Next]_vars

\* from the seeded state, one request at a time
SpecSerial == InitSeed /\ [][NextSerial]_vars

\* attendance saved for two groups, one request at a time
SpecAttendance == InitAttendance /\ [][NextAttendance]_vars

\* the long roster saved over and over, one request at a time
SpecBulk == InitBulk /\ [][NextBulk]_vars

\* the handed-in assignment reviewed over and over, one request at a time
SpecReview == InitAttendance /\ [][NextReview]_vars

\* an assignment started, handed in and reviewed, requests overlapping
SpecWorkflow == InitWorkflow /\ [][NextWorkflow]_vars

\* the teachers managing groups and students, requests overlapping
SpecGroups == InitGroups /\ [][NextGroups]_vars

\* messages and delete_student, one request at a time
SpecCascade == InitCascade /\ [][NextCascade]_vars

\* levels and rankings of a small class, one request at a time
SpecLevel == InitLevel /\ [][NextLevel]_vars

\* rankings of more students than a ranking lists, one request at a time
SpecRanking == InitRanking /\ [][NextRanking]_vars

\* the two producers that use $inc, overlapping
SpecInc == Init /\ [][NextInc]_vars

\* awards to any user, and purchases, one request at a time
SpecStaff == InitAttendance /\ [][NextStaff]_vars

\* overlapping purchases of a student who can pay for one "Konfet"
SpecShop == InitShop /\ [][NextShop]_vars

\* ------------------------------------------------------------------ claims
Students == {u \in DOMAIN users : users[u].role = "student"}

\* request p is in flight and reads or writes the documents of student s
Affects(p, s) ==
    /\ req[p].op # "idle"
    /\ \/ req[p].op \in {"give_coins", "redeem_reward", "delete_student"}
          /\ req[p].student = s
       \/ req[p].op = "review_submission"
          /\ \/ req[p].student = s
             \/ \E i \in 1 .. Len(submissions) :
                    submissions[i].id = req[p].sub /\ submissions[i].studentId = s
       \/ req[p].op = "save_attendance"
          /\ \E i \in 1 .. Len(req[p].roster) : req[p].roster[i].studentId = s

\* C1: when the requests run one at a time, between any two of them every
\* student's totalCoins is the sum of the amounts of that student's ledger
\* entries.
LedgerSumSerial ==
    AllIdle => \A s \in Students : users[s].totalCoins = LedgerSum(s)

\* the created student was given coins and has spent them all in the shop,
\* and another id has an entry of its own
LedgerSumSerialWitness ==
    /\ AllIdle
    /\ 11 \in Students
    /\ Len(EntriesOf(11)) >= 2
    /\ \E e \in Range(ledger) : e.studentId = 11 /\ e.reason = "Sovg'a"
    /\ \E e \in Range(ledger) : e.studentId # 11
    /\ users[11].totalCoins = 0

\* C2: under any interleaving, whenever no request that affects a student is
\* in flight, that student's totalCoins is the sum of the student's ledger
\* entries.
LedgerSumQuiescent ==
    \A s \in Students :
        (\A p \in Slots : ~Affects(p, s)) => users[s].totalCoins = LedgerSum(s)

\* C3: two give_coins requests p and q for one student that both read the
\* balance before either wrote it: once q, the later writer, has written,
\* totalCoins is the balance q read plus the amount of q alone, and the ledger
\* holds the entries of both.
GaveCoins(p) ==
    req[p].op = "give_coins" /\ req[p].pc = "done" /\ req[p].status = 200

Overlapped(p, q) ==
    /\ p # q
    /\ GaveCoins(p)
    /\ GaveCoins(q)
    /\ req[p].student = req[q].student
    /\ req[q].readAt < req[p].wroteAt
    /\ req[p].wroteAt < req[q].wroteAt

HasEntry(p) ==
    \E e \in Range(ledger) :
        /\ e.id = req[p].tx
        /\ e.studentId = req[p].student
        /\ e.amount = req[p].amount

LastWriteWins ==
    \A p, q \in Slots :
        (Overlapped(p, q) /\ clock = req[q].wroteAt) =>
            /\ users[req[q].student].totalCoins = req[q].balance + req[q].amount
            /\ HasEntry(p)
            /\ HasEntry(q)

\* both read the same balance, both amounts count, and one is missing from
\* the total
LastWriteWinsWitness ==
    \E p, q \in Slots :
        /\ Overlapped(p, q)
        /\ clock = req[q].wroteAt
        /\ req[p].balance = req[q].balance
        /\ req[p].amount # 0
        /\ req[q].amount # 0
        /\ users[req[q].student].totalCoins = LedgerSum(req[q].student) - req[p].amount

\* C4: no step changes a ledger entry, and the only step that removes one is
\* delete_student's delete_many for the entry's studentId.
AppendOnly ==
    [][\A i \in 1 .. Len(ledger) :
          \/ ledger[i] \in Range(ledger')
          \/ \E p \in Slots :
                 /\ req[p].op = "delete_student"
                 /\ req[p].pc = "ledger"
                 /\ req[p].student = ledger[i].studentId
                 /\ req'[p].pc = "attendance"]_vars

\* delete_student has removed the entries of its student and left another's
AppendOnlyWitness ==
    \E p \in Slots :
        /\ req[p].op = "delete_student"
        /\ req[p].pc = "attendance"
        /\ ledger # <<>>
        /\ Len(ledger) < nextTx

\* C5: between requests run one at a time, every ledger entry's studentId is
\* the id of a user.
NoOrphanEntries ==
    AllIdle => \A e \in Range(ledger) : e.studentId \in DOMAIN users

\* C6: every ledger entry has a non-zero amount.
NonZeroAmounts == \A e \in Range(ledger) : e.amount # 0

\* C7: a give_coins request with amount 0 is answered 422 straight away, and
\* the step that takes it up leaves the ledger and every totalCoins alone; no
\* later step is taken for it.
IsZeroGive(r) == r.op = "give_coins" /\ r.raw = 0

ZeroRejected ==
    [][\A p \in Slots :
          (IsZeroGive(req[p]) \/ IsZeroGive(req'[p])) =>
              /\ IsZeroGive(req'[p]) => req'[p].pc = "done" /\ req'[p].status = 422
              /\ ledger' = ledger
              /\ users' = users]_vars

\* a zero award was refused when the ledger already had an entry
ZeroRejectedWitness ==
    \E p \in Slots :
        /\ IsZeroGive(req[p])
        /\ req[p].status = 422
        /\ req[p].student \in Students
        /\ ledger # <<>>

\* C8: a save_attendance that finds for its (group, date) exactly the records
\* of its own roster (the roster was saved just before) appends no ledger
\* entry and changes no totalCoins.  Requests run one at a time.
ResaveAwardsNothing ==
    [][\A p \in Slots :
          (req[p].op = "save_attendance" /\ req[p].resave)
              => (ledger' = ledger /\ users' = users)]_vars

\* C9: the ledger holds at most one attendance award per student and day.
OneAwardPerDay ==
    \A i, j \in 1 .. Len(ledger) :
        ( /\ ledger[i].reason = "Darsga kelish"
          /\ ledger[j].reason = "Darsga kelish"
          /\ ledger[i].studentId = ledger[j].studentId
          /\ ledger[i].forDate = ledger[j].forDate ) => i = j

\* C10: between save_attendance requests the attendance collection holds at
\* most one record per (studentId, date).
OneRecordPerStudentDay ==
    AllIdle =>
        \A i, j \in 1 .. Len(attendance) :
            ( /\ attendance[i].studentId = attendance[j].studentId
              /\ attendance[i].date = attendance[j].date ) => i = j

\* C11: a save_attendance whose roster is one entry (S1, absent) appends no
\* ledger entry and changes no totalCoins (the coin of an earlier "present"
\* stays, in the ledger and in the balance), and when it has stored its
\* records, the record of (G, D) is that of S1 with status absent.
IsAbsentSave(r) ==
    /\ r.op = "save_attendance"
    /\ Len(r.roster) = 1
    /\ r.roster[1].status = "absent"

StatusChangeKeepsCoin ==
    [][\A p \in Slots :
          IsAbsentSave(req[p]) =>
              /\ ledger' = ledger
              /\ users' = users
              /\ (req[p].pc = "loop" /\ req'[p].pc = "done") =>
                     SelectSeq(attendance', LAMBDA a :
                         a.groupId = req[p].group /\ a.date = req[p].date)
                       = Records(req[p])]_vars

\* student 11 was saved present and then absent for the same day: the record
\* says absent, the one award is in the ledger and in the balance
StatusChangeKeepsCoinWitness ==
    \E p \in Slots :
        /\ IsAbsentSave(req[p])
        /\ req[p].pc = "done"
        /\ req[p].roster[1].studentId = 11
        /\ req[p].existing = {11}
        /\ OfDay(req[p].group, req[p].date)
             = <<[studentId |-> 11, groupId |-> req[p].group,
                  date |-> req[p].date, status |-> "absent"]>>
        /\ Len(ledger) = 1
        /\ ledger[1].studentId = 11
        /\ ledger[1].reason = "Darsga kelish"
        /\ ledger[1].forDate = req[p].date
        /\ users[11].totalCoins = AttendanceCoin

\* C12: requests run one at a time.  A redeem_reward that has found the shop
\* open and the reward goes on to pay exactly when totalCoins >= price, and is
\* refused with 400 otherwise; the request changes totalCoins only by taking
\* the price off it, changes the ledger only by appending one entry of -price
\* for the student, and ends with 200 exactly when it has appended that entry.
RedeemBoundary ==
    [][\A p \in Slots :
          (req[p].op = "redeem_reward" /\ req'[p].op = "redeem_reward") =>
              LET s == req[p].student
                  price == req[p].price
              IN  /\ req[p].pc = "student" =>
                        /\ req'[p].pc = "update" <=> GetCoins(users[s]) >= price
                        /\ req'[p].pc # "update" =>
                               req'[p].pc = "done" /\ req'[p].status = 400
                  /\ users' # users =>
                        /\ req[p].pc = "update"
                        /\ users' = [users EXCEPT ![s] =
                                        WithCoins(@, @.totalCoins - price)]
                  /\ ledger' # ledger =>
                        /\ req[p].pc = "insert"
                        /\ Len(ledger') = Len(ledger) + 1
                        /\ SubSeq(ledger', 1, Len(ledger)) = ledger
                        /\ ledger'[Len(ledger')].studentId = s
                        /\ ledger'[Len(ledger')].amount = -price
                  /\ (req[p].pc # "done" /\ req'[p].pc = "done") =>
                        (req'[p].status = 200 <=> req[p].pc = "insert")]_vars

\* a balance equal to the price was accepted and is now 0
RedeemBoundaryWitness ==
    \E p \in Slots :
        /\ req[p].op = "redeem_reward"
        /\ req[p].pc = "done"
        /\ req[p].status = 200
        /\ req[p].price > 0
        /\ req[p].balance = req[p].price
        /\ users[req[p].student].totalCoins = 0
        /\ ledger[Len(ledger)].amount = -req[p].price

\* C13: with redeem_reward the only producer at work, the prices of a
\* student's purchases in the ledger never add up to more than the student's
\* other entries: purchases do not drive the ledger sum below zero.
Purchases(s) == SelectSeq(EntriesOf(s), LAMBDA e : e.reason = "Sovg'a")
Earnings(s) == SelectSeq(EntriesOf(s), LAMBDA e : e.reason # "Sovg'a")

PurchasesCovered ==
    \A s \in Students : SumAmounts(Earnings(s)) + SumAmounts(Purchases(s)) >= 0

\* C14: a finished redeem_reward reports the first check that failed: the
\* shop closed (no settings document, or isOpen false) whatever the reward and
\* the balance; otherwise the reward not found whatever the balance; and
\* otherwise, if anything, the balance.
ShopClosed == shop = <<>> \/ ~shop[1].isOpen

RedeemCheckOrder ==
    \A p \in Slots :
        (req[p].op = "redeem_reward" /\ req[p].pc = "done") =>
            IF ShopClosed
            THEN req[p].status = 400 /\ req[p].detail = "closed"
            ELSE IF req[p].reward \notin DOMAIN Rewards
            THEN req[p].status = 404 /\ req[p].detail = "no reward"
            ELSE \/ req[p].status = 200 /\ req[p].detail = ""
                 \/ req[p].status = 400 /\ req[p].detail = "insufficient"

\* no settings document and no such reward: the answer is "closed"; and
\* another request, for a reward the student cannot pay, got the same answer
RedeemCheckOrderWitness ==
    /\ shop = <<>>
    /\ \E p, q \in Slots :
           /\ req[p].op = "redeem_reward"
           /\ req[p].reward = NoReward
           /\ req[p].status = 400
           /\ req[p].detail = "closed"
           /\ req[q].op = "redeem_reward"
           /\ req[q].reward \in DOMAIN Rewards
           /\ 100 * Rewards[req[q].reward] > users[req[q].student].totalCoins
           /\ req[q].detail = "closed"

\* C15: requests run one at a time.  Whenever a student's totalCoins differs
\* from the sum of the student's ledger entries, the ledger is ahead of the
\* balance by the delta of the request in flight: the entry is there, the
\* balance is yet to be written.
Delta(r) ==
    CASE r.op = "give_coins" -> r.amount
      [] r.op = "save_attendance" -> AttendanceCoin
      [] r.op = "review_submission" -> 100 * r.coins
      [] r.op = "redeem_reward" -> -r.price
      [] OTHER -> 0

EntryBeforeBalance ==
    \A s \in Students :
        users[s].totalCoins # LedgerSum(s) =>
            \E p \in Slots :
                /\ req[p].op # "idle"
                /\ LedgerSum(s) - users[s].totalCoins = Delta(req[p])

\* C16: a ledger entry has its teacherId equal to its studentId exactly when
\* redeem_reward made it.
SelfServiceOnly ==
    \A e \in Range(ledger) : e.teacherId = e.studentId <=> e.reason = "Sovg'a"

\* C17: requests run one at a time.  A review_submission of a submission that
\* does not exist ends with 404 and changes nothing.  Of one that exists, it
\* sets the status to reviewed and coinsGiven to its value; with coinsGiven > 0
\* it then appends one ledger entry of +coinsGiven for the submission's student
\* and adds coinsGiven to that student's totalCoins; with coinsGiven = 0 it
\* ends there.  It makes no other change to submissions, ledger or balances.
RowsOf(r) == {i \in 1 .. Len(submissions) : submissions[i].id = r.sub}

ReviewEffect ==
    [][\A p \in Slots :
          (req[p].op = "review_submission" /\ req'[p].op = "review_submission") =>
              LET r == req[p]
                  c == 100 * req[p].coins
              IN  /\ submissions' # submissions => r.pc = "update"
                  /\ ledger' # ledger => r.pc = "insert" /\ c > 0
                  /\ users' # users => r.pc = "inc" /\ c > 0
                  /\ r.pc = "find" =>
                        IF RowsOf(r) = {}
                        THEN req'[p].pc = "done" /\ req'[p].status = 404
                        ELSE /\ req'[p].pc = "update"
                             /\ \A i \in RowsOf(r) :
                                    req'[p].student = submissions[i].studentId
                  /\ r.pc = "update" =>
                        /\ RowsOf(r) # {}
                        /\ Len(submissions') = Len(submissions)
                        /\ \A i \in 1 .. Len(submissions) :
                              IF i \in RowsOf(r)
                              THEN submissions'[i] =
                                     [submissions[i] EXCEPT !.status = "reviewed",
                                                            !.coinsGiven = r.coins]
                              ELSE submissions'[i] = submissions[i]
                        /\ IF c > 0
                           THEN req'[p].pc = "insert"
                           ELSE req'[p].pc = "done" /\ req'[p].status = 200
                  /\ r.pc = "insert" =>
                        /\ Len(ledger') = Len(ledger) + 1
                        /\ SubSeq(ledger', 1, Len(ledger)) = ledger
                        /\ ledger'[Len(ledger')].studentId = r.student
                        /\ ledger'[Len(ledger')].amount = c
                        /\ req'[p].pc = "inc"
                  /\ r.pc = "inc" =>
                        /\ r.student \in DOMAIN users
                        /\ users' = [users EXCEPT ![r.student] =
                                        WithCoins(@, @.totalCoins + c)]
                        /\ req'[p].pc = "done"
                        /\ req'[p].status = 200]_vars

\* a review with coins has ended: the submission is reviewed with that value,
\* the student's last entry is the award, and the balance holds it
ReviewEffectWitness ==
    \E p \in Slots :
        /\ req[p].op = "review_submission"
        /\ req[p].pc = "done"
        /\ req[p].status = 200
        /\ req[p].coins > 0
        /\ \E i \in RowsOf(req[p]) :
               /\ submissions[i].status = "reviewed"
               /\ submissions[i].coinsGiven = req[p].coins
               /\ submissions[i].studentId = req[p].student
        /\ ledger # <<>>
        /\ ledger[Len(ledger)].studentId = req[p].student
        /\ ledger[Len(ledger)].reason = "Topshiriq uchun"
        /\ ledger[Len(ledger)].amount = 100 * req[p].coins
        /\ users[req[p].student].totalCoins = 100 * req[p].coins

\* C18: reviews run one at a time and are the only producer.  A review with
\* coinsGiven c2 > 0 of a submission already reviewed with c1 > 0 goes on to
\* award all the same, leaving the entry of c1 in the ledger; and when a review
\* with c2 > 0 has ended, the student's last entry is +c2, the submission
\* stores c2, and totalCoins is the sum of all the awards.
ReReviewAddsUp ==
    /\ [](\A p \in Slots :
              ( /\ req[p].op = "review_submission"
                /\ req[p].pc = "done"
                /\ req[p].status = 200
                /\ req[p].coins > 0 ) =>
                  LET s == req[p].student
                      es == EntriesOf(req[p].student)
                  IN  /\ es # <<>>
                      /\ es[Len(es)].amount = 100 * req[p].coins
                      /\ users[s].totalCoins = SumAmounts(es)
                      /\ \A i \in RowsOf(req[p]) :
                             submissions[i].coinsGiven = req[p].coins)
    /\ [][\A p \in Slots :
              ( /\ req[p].op = "review_submission"
                /\ req[p].pc = "update"
                /\ req[p].coins > 0
                /\ \E i \in RowsOf(req[p]) :
                       /\ submissions[i].status = "reviewed"
                       /\ submissions[i].coinsGiven > 0 ) =>
                  /\ req'[p].pc = "insert"
                  /\ ledger' = ledger]_vars

\* the submission was reviewed with 1 and then with 2: two entries, a balance
\* of 3, and 2 stored in the submission
ReReviewAddsUpWitness ==
    \E p \in Slots :
        /\ req[p].op = "review_submission"
        /\ req[p].pc = "done"
        /\ req[p].coins = 2
        /\ Len(ledger) = 2
        /\ ledger[1].amount = 100
        /\ ledger[2].amount = 200
        /\ ledger[1].studentId = 11
        /\ ledger[2].studentId = 11
        /\ users[11].totalCoins = 300
        /\ submissions[1].coinsGiven = 2

\* C19: a submission's status only moves along not_started (no row) ->
\* in_progress -> submitted -> reviewed: a new row is in_progress, and a step
\* leaves the status of a row as it is or moves it to the next one.
Rank(st) ==
    CASE st = "in_progress" -> 1
      [] st = "submitted" -> 2
      [] st = "reviewed" -> 3

WorkflowOrder ==
    [][\A n \in Range(submissions') :
          IF \E o \in Range(submissions) : o.id = n.id
          THEN \A o \in Range(submissions) :
                   o.id = n.id =>
                       Rank(n.status) \in {Rank(o.status), Rank(o.status) + 1}
          ELSE Rank(n.status) = 1]_vars

\* C20: there is at most one submission per (assignmentId, studentId).
OneRowPerPair ==
    \A i, j \in 1 .. Len(submissions) :
        ( /\ submissions[i].assignmentId = submissions[j].assignmentId
          /\ submissions[i].studentId = submissions[j].studentId ) => i = j

\* two upserts of one student for one assignment both matched no row, both
\* have ended, and there is one row
OneRowPerPairWitness ==
    \E p, q \in Slots :
        /\ p # q
        /\ IsUpsert(req[p])
        /\ IsUpsert(req[q])
        /\ req[p].pc = "done"
        /\ req[q].pc = "done"
        /\ ~req[p].matched
        /\ ~req[q].matched
        /\ req[p].student = req[q].student
        /\ req[p].assignment = req[q].assignment
        /\ Len(submissions) = 1

\* C21: every group has at most 12 active students.
GroupCapacity ==
    \A g \in Groups \cup {GhostGroup} : Cardinality(Members(g)) <= GroupCap

\* C22: there are at most 6 groups.
GroupCount == Cardinality(groups) <= GroupLimit

\* C23: no step deletes a group that has an active student.
NoDeleteWithMembers ==
    [][\A g \in groups \ groups' : Members(g) = {}]_vars

\* C30: the groupId of every active student is the id of a group.
GroupExists ==
    \A u \in DOMAIN users :
        (users[u].role = "student" /\ users[u].isActive) =>
            users[u].groupId \in groups

\* C24: when a delete_student for S is done and no other request ran with it,
\* user S is gone, no ledger entry, attendance record or submission has
\* studentId S and no message is from or to S; and no step of the request
\* changes a record of another user.
OfStudent(docs, u) == SelectSeq(docs, LAMBDA x : x.studentId = u)

Between(msgs, s) == SelectSeq(msgs, LAMBDA m : m.fromUserId # s /\ m.toUserId # s)

CascadeDelete ==
    /\ [](\A p \in Slots :
            (req[p].op = "delete_student" /\ req[p].pc = "done"
                 /\ req[p].status = 200) =>
               LET s == req[p].student
               IN  /\ s \notin DOMAIN users
                   /\ OfStudent(ledger, s) = <<>>
                   /\ OfStudent(attendance, s) = <<>>
                   /\ OfStudent(submissions, s) = <<>>
                   /\ \A m \in Range(messages) :
                          m.fromUserId # s /\ m.toUserId # s)
    /\ [][\A p \in Slots :
            (req[p].op = "delete_student" /\ req'[p].op = "delete_student") =>
               LET s == req[p].student
               IN  /\ \A u \in DOMAIN users \ {s} :
                          /\ u \in DOMAIN users'
                          /\ users'[u] = users[u]
                          /\ OfStudent(ledger', u) = OfStudent(ledger, u)
                          /\ OfStudent(attendance', u) = OfStudent(attendance, u)
                          /\ OfStudent(submissions', u) = OfStudent(submissions, u)
                   /\ Between(messages', s) = Between(messages, s)]_vars

\* student 11 was deleted with a message from it and a message to it, and
\* student 12 still has its records
CascadeDeleteWitness ==
    \E p \in Slots :
        /\ req[p].op = "delete_student"
        /\ req[p].pc = "done"
        /\ req[p].status = 200
        /\ req[p].student = 11
        /\ req[p].removed = 2
        /\ OfStudent(ledger, 12) # <<>>
        /\ OfStudent(attendance, 12) # <<>>
        /\ OfStudent(submissions, 12) # <<>>

\* C25: the level is Senior iff coins >= 71, Middle iff 31 <= coins < 71 and
\* Junior otherwise, also below zero; coinsToNextLevel is 0 iff coins >= 71,
\* otherwise the next threshold minus coins, which is positive.
LevelSteps ==
    \A p \in Slots :
        (req[p].op = "get_student" /\ req[p].status = 200) =>
            LET c == req[p].totalCoins
                senior == 7100
                middle == 3100
            IN  /\ c = GetCoins(users[req[p].student])
                /\ req[p].level = "Senior Robotsoz" <=> c >= senior
                /\ req[p].level = "Middle Robotsoz" <=> (middle <= c /\ c < senior)
                /\ req[p].level = "Junior Robotsoz" <=> c < middle
                /\ req[p].coinsToNextLevel = 0 <=> c >= senior
                /\ c < middle => req[p].coinsToNextLevel = middle - c
                /\ (middle <= c /\ c < senior) =>
                       req[p].coinsToNextLevel = senior - c
                /\ c < senior => req[p].coinsToNextLevel > 0

\* a student with exactly 71 coins was answered Senior and 0
LevelStepsWitness ==
    \E p \in Slots :
        /\ req[p].op = "get_student"
        /\ req[p].status = 200
        /\ req[p].student = 11
        /\ req[p].totalCoins = 7100
        /\ req[p].level = "Senior Robotsoz"
        /\ req[p].coinsToNextLevel = 0

\* C26: a ranking lists exactly the active students (of the group), by
\* totalCoins non-increasing, with the ranks 1..n in that order; globalTotal
\* and groupTotal count the active students (of the group).
RankedOrder(rows) ==
    /\ \A i \in 1 .. Len(rows) : rows[i].rank = i
    /\ \A i \in 1 .. (Len(rows) - 1) : rows[i].totalCoins >= rows[i + 1].totalCoins
    /\ \A i \in 1 .. Len(rows) : rows[i].totalCoins = GetCoins(users[rows[i].id])

RankingLists ==
    \A p \in Slots :
        /\ (req[p].op = "global_rankings" /\ req[p].pc = "done") =>
               /\ {r.id : r \in Range(req[p].rows)} = Range(ActiveStudents)
               /\ Len(req[p].rows) = Len(ActiveStudents)
               /\ RankedOrder(req[p].rows)
        /\ (req[p].op = "group_rankings" /\ req[p].pc = "done") =>
               /\ {r.id : r \in Range(req[p].rows)} = Members(req[p].group)
               /\ Len(req[p].rows) = Cardinality(Members(req[p].group))
               /\ RankedOrder(req[p].rows)
        /\ (req[p].op = "public_profile" /\ req[p].status = 200) =>
               /\ req[p].globalTotal = Len(ActiveStudents)
               /\ req[p].groupTotal = Cardinality(Members(req[p].group))

\* C27: a save_attendance that ran alone gave a coin for exactly the entries
\* of its roster that are present and whose student had no record of the
\* (group, date) just before, and answers their number as coinsGiven.
Deserving(r) ==
    {i \in 1 .. Len(r.roster) :
        r.roster[i].status = "present" /\ r.roster[i].studentId \notin r.before}

AwardsExactly ==
    \A p \in Slots :
        (req[p].op = "save_attendance" /\ req[p].pc = "done") =>
            req[p].coinsGiven = Cardinality(Deserving(req[p]))

IncDue(r, s) ==
    /\ r.op \in {"review_submission", "save_attendance"}
    /\ r.pc = "inc"
    /\ IF r.op = "review_submission"
       THEN r.student = s
       ELSE r.roster[r.idx].studentId = s

RECURSIVE DueUpTo(_, _)
DueUpTo(s, n) ==
    IF n = 0 THEN 0
    ELSE (IF IncDue(req[n], s) THEN Delta(req[n]) ELSE 0) + DueUpTo(s, n - 1)

NoIncrementLost ==
    \A s \in Students :
        users[s].totalCoins + DueUpTo(s, MaxReq) = LedgerSum(s)

\* a review inserted its entry, then a save_attendance inserted its own and
\* incremented, and the review's increment is still due
NoIncrementLostWitness ==
    \E p, q \in Slots :
        /\ IncDue(req[p], 11)
        /\ req[p].op = "review_submission"
        /\ req[q].op = "save_attendance"
        /\ req[q].coinsGiven = 1
        /\ Len(ledger) = 2
        /\ ledger[1].reason = "Topshiriq uchun"
        /\ ledger[2].reason = "Darsga kelish"
        /\ users[11].totalCoins = AttendanceCoin

====
